---------------------------- MODULE Spec2Model ----------------------------
(***************************************************************************)
(* A model of the research-to-LinkedIn pipeline of research-agent:         *)
(* ResearchWorkflow.execute (src/src/workflows/research_workflow.py), the  *)
(* validators (src/src/utils/validators.py), the LinkedInPost schema       *)
(* (src/src/types/schemas.py), the two tool wrappers (src/src/tools) and   *)
(* the two front ends (src/src/main.py, src/app.py).                       *)
(*                                                                         *)
(* A Python str is a sequence of one-character strings.  A Python value    *)
(* whose type the code inspects, and a local that may not be bound yet, is *)
(* a record [type |-> ..., val |-> ...]; None is [type |-> "NoneType"].    *)
(***************************************************************************)
EXTENDS Integers, Sequences, FiniteSets, TLC

VARIABLES
    pc,                 \* stage of the current execute call
    stages,             \* history: the stages entered so far, in order
    topic,              \* argument of execute
    writer_mode,        \* which writer_chain __init__ built: "structured" | "parser"
    invoked,            \* history: the external components invoked so far
    iterations,         \* AgentExecutor: iterations done = len(intermediate_steps)
    observation,        \* AgentExecutor: the last tool call: the tool, its input, how
                        \* the service failed (None: it did not), what the tool
                        \* handed to the loop
    research_result,    \* local of execute: research_result["output"]
    research_report,    \* local of execute
    intermediate_steps, \* local of execute: the number of (action, observation) steps
    post_structured,    \* local of execute: what writer_chain.invoke returned
    linkedin_post,      \* local of execute
    writer_attempts,    \* history: the writer strategies invoked during execute
    result,             \* what execute returned
    error,              \* what execute raised
    other,              \* the locals of a second execute call that runs at the
                        \* same time (None: there is none)
    app                 \* the process and its front end: the writes of os.environ,
                        \* the calls of execute, the files written, what is shown

vars == <<pc, stages, topic, writer_mode, invoked, iterations, observation,
          research_result, research_report, intermediate_steps, post_structured, linkedin_post,
          writer_attempts, result, error, other, app>>

None == [type |-> "NoneType"]

-----------------------------------------------------------------------------
(* Strings *)

NL == "\n"
SP == " "
HASH == "#"

\* str.isspace() for the characters of the model
Whitespace == {" ", "\n", "\t"}

\* the characters matched by \w in the model's alphabet
WordChars == {"A", "I", "a", "c", "h", "k", "o", "p", "q", "s", "t", "x", "N", "e", "n",
              "0", "1", "_"}

\* c * n
Pad(c, n) == [i \in 1..n |-> c]

\* s[lo..hi] as Python's s[lo-1:hi]
Slice(s, lo, hi) == [i \in 1..(IF hi >= lo THEN hi - lo + 1 ELSE 0) |-> s[lo + i - 1]]

\* str.strip(): drop leading and trailing whitespace
Strip(s) ==
    IF \A i \in 1..Len(s) : s[i] \in Whitespace THEN <<>>
    ELSE LET lo == CHOOSE i \in 1..Len(s) :
                      s[i] \notin Whitespace /\ \A j \in 1..(i - 1) : s[j] \in Whitespace
             hi == CHOOSE i \in 1..Len(s) :
                      s[i] \notin Whitespace /\ \A j \in (i + 1)..Len(s) : s[j] \in Whitespace
         IN  Slice(s, lo, hi)

\* the sequences over alphabet S of length at most n
RECURSIVE StringsUpTo(_, _)
StringsUpTo(S, n) ==
    IF n = 0 THEN {<<>>}
    ELSE LET shorter == StringsUpTo(S, n - 1)
         IN  shorter \cup {Append(s, c) : s \in shorter, c \in S}

\* sub in s
Contains(s, sub) ==
    \E i \in 0..(Len(s) - Len(sub)) : \A j \in 1..Len(sub) : s[i + j] = sub[j]

-----------------------------------------------------------------------------
(* validators.py: validate_topic *)

MinTopicLen == 3
MaxTopicLen == 200

ValueError(msg) == [type |-> "ValueError", msg |-> msg]

EmptyInput == ValueError("Topic cannot be empty")
TooShort == ValueError("Topic too short (minimum 3 characters)")
TooLong == ValueError("Topic too long (maximum 200 characters)")

\* a plausible slip: the length checks run before the emptiness check
validate_topic_LengthFirst(t) ==
    IF Len(t) < MinTopicLen THEN TooShort
    ELSE IF Len(t) > MaxTopicLen THEN TooLong
    ELSE IF t = <<>> \/ Strip(t) = <<>> THEN EmptyInput
    ELSE None

\* a plausible slip: <= for <, >= for >
validate_topic_OffByOne(t) ==
    IF t = <<>> \/ Strip(t) = <<>> THEN EmptyInput
    ELSE IF Len(t) <= MinTopicLen THEN TooShort
    ELSE IF Len(t) >= MaxTopicLen THEN TooLong
    ELSE None

\* None when the topic passes, else the ValueError raised
validate_topic(t) ==
    IF t = <<>> \/ Strip(t) = <<>> THEN EmptyInput
    ELSE IF Len(t) < MinTopicLen THEN TooShort
    ELSE IF Len(t) > MaxTopicLen THEN TooLong
    ELSE None

-----------------------------------------------------------------------------
(* Python call outcomes: a call returns a value or raises an exception *)

Return(v) == [raised |-> FALSE, value |-> v]
Raise(e) == [raised |-> TRUE, exc |-> e]

-----------------------------------------------------------------------------
(* tools/scrape_tool.py: ResearchScrapeTool.scrape *)

S_ErrorScraping == <<"E", "r", "r", "o", "r", " ", "s", "c", "r", "a", "p", "i", "n", "g", " ">>
S_ColonSpace == <<":", " ">>

\* str(e) of the exceptions the extraction call can raise
MsgConnection == <<"c", "o", "n", "n">>
MsgTimeout == <<"t", "i", "m", "e", "o", "u", "t">>
MsgHTTP(status) == IF status = 404 THEN <<"4", "0", "4">> ELSE <<"5", "0", "0">>
MsgJSON == <<"j", "s", "o", "n">>
MsgAttribute == <<"a", "t", "t", "r">>
MsgType == <<"t", "y", "p", "e">>

\* What the FireCrawl service does with one request:
\*   [net |-> "ConnectionError" | "Timeout"]         requests.post raises
\*   [net |-> "ok", status |-> n, body |-> b]        a response with a status and a body
\* b.kind is "invalid" (not JSON), "list" (a JSON array), "no_data" ({}),
\* "data_null" ({"data": null}), "markdown_null" ({"data": {"markdown": null}})
\* or "ok" ({"data": {"markdown": b.markdown}}).
ScrapeBodies == {[kind |-> k, markdown |-> <<>>] :
                    k \in {"invalid", "list", "no_data", "data_null", "markdown_null"}}
                \cup {[kind |-> "ok", markdown |-> <<"#", " ", "p">>]}
ScrapeResponses ==
    {[net |-> n, status |-> 0, body |-> [kind |-> "invalid", markdown |-> <<>>]] :
        n \in {"ConnectionError", "Timeout"}}
    \cup {[net |-> "ok", status |-> st, body |-> b] : st \in {200, 404, 500}, b \in ScrapeBodies}

\* the exception the try block of scrape runs into, None when it runs through
ScrapeException(resp) ==
    IF resp.net = "ConnectionError" THEN [type |-> "ConnectionError", msg |-> MsgConnection]
    ELSE IF resp.net = "Timeout" THEN [type |-> "Timeout", msg |-> MsgTimeout]
    ELSE IF resp.status >= 400 THEN [type |-> "HTTPError", msg |-> MsgHTTP(resp.status)]
    ELSE IF resp.body.kind = "invalid" THEN [type |-> "JSONDecodeError", msg |-> MsgJSON]
    ELSE IF resp.body.kind \in {"list", "data_null"}
         THEN [type |-> "AttributeError", msg |-> MsgAttribute]
    ELSE IF resp.body.kind = "markdown_null" THEN [type |-> "TypeError", msg |-> MsgType]
    ELSE None

\* a plausible slip: the handler logs and re-raises, as search does
scrape_Reraise(url, resp) ==
    LET e == ScrapeException(resp)
    IN  IF e # None THEN Raise(e) ELSE Return(resp.body.markdown)

scrape(url, resp) ==
    LET e == ScrapeException(resp)
    IN  IF e # None THEN Return(S_ErrorScraping \o url \o S_ColonSpace \o e.msg)
        ELSE Return(resp.body.markdown)

-----------------------------------------------------------------------------
(* tools/search_tool.py: ResearchSearchTool.search *)

\* What the Tavily service does with successive requests: a sequence of
\* outcomes, one per invocation of self.tavily.invoke; search makes one.
SearchOutcomes == {[ok |-> TRUE, results |-> 1], [ok |-> TRUE, results |-> 0],
                   [ok |-> FALSE, results |-> 0]}
SearchResponses == {<<a, b>> : a \in SearchOutcomes, b \in {[ok |-> TRUE, results |-> 1]}}

TavilyError == [type |-> "TavilyError", msg |-> <<"t", "a", "v", "i", "l", "y">>]

\* a plausible slip: the handler returns an empty result list
search_Swallow(query, resps) ==
    IF resps[1].ok THEN [out |-> Return(Pad("r", resps[1].results)), calls |-> 1]
    ELSE [out |-> Return(<<>>), calls |-> 1]

\* out: what search returns or raises; calls: invocations of self.tavily.invoke.
\* The results list is returned as the service gave it; a result is "r".
search(query, resps) ==
    IF resps[1].ok THEN [out |-> Return(Pad("r", resps[1].results)), calls |-> 1]
    ELSE [out |-> Raise(TavilyError), calls |-> 1]

-----------------------------------------------------------------------------
(* Python values: str(x), repr(x), json.loads(s) *)

Str(chars) == [type |-> "str", val |-> chars]
PyInt(n) == [type |-> "int", val |-> n]
List(items) == [type |-> "list", val |-> items]
\* a dict is the sequence of its <<key, value>> pairs, in insertion order
Dict(pairs) == [type |-> "dict", val |-> pairs]

HasKey(d, key) == \E i \in 1..Len(d.val) : d.val[i][1] = key
Get(d, key) == d.val[CHOOSE i \in 1..Len(d.val) : d.val[i][1] = key][2]

\* the escapes repr() and JSON share for the characters of the model
RECURSIVE Escape(_)
Escape(chars) ==
    IF chars = <<>> THEN <<>>
    ELSE (IF chars[1] = NL THEN <<"\\", "n">> ELSE <<chars[1]>>) \o Escape(Tail(chars))

RECURSIVE Repr(_)
RECURSIVE ReprItems(_)
RECURSIVE ReprPairs(_)
Repr(x) ==
    IF x.type = "NoneType" THEN <<"N", "o", "n", "e">>
    ELSE IF x.type = "str" THEN <<"'">> \o Escape(x.val) \o <<"'">>
    ELSE IF x.type = "list" THEN <<"[">> \o ReprItems(x.val) \o <<"]">>
    ELSE <<"{">> \o ReprPairs(x.val) \o <<"}">>
ReprItems(items) ==
    IF items = <<>> THEN <<>>
    ELSE Repr(items[1]) \o (IF Len(items) > 1 THEN <<",", " ">> ELSE <<>>)
         \o ReprItems(Tail(items))
ReprPairs(pairs) ==
    IF pairs = <<>> THEN <<>>
    ELSE <<"'">> \o pairs[1][1] \o <<"'", ":", " ">> \o Repr(pairs[1][2])
         \o (IF Len(pairs) > 1 THEN <<",", " ">> ELSE <<>>)
         \o ReprPairs(Tail(pairs))

\* str(x)
PyStr(x) == IF x.type = "str" THEN x.val ELSE Repr(x)

\* json.dumps(x) for None, strings, lists and dicts
RECURSIVE JsonDumps(_)
RECURSIVE JsonItems(_)
RECURSIVE JsonPairs(_)
JsonDumps(x) ==
    IF x.type = "NoneType" THEN <<"n", "u", "l", "l">>
    ELSE IF x.type = "str" THEN <<"\"">> \o Escape(x.val) \o <<"\"">>
    ELSE IF x.type = "list" THEN <<"[">> \o JsonItems(x.val) \o <<"]">>
    ELSE <<"{">> \o JsonPairs(x.val) \o <<"}">>
JsonItems(items) ==
    IF items = <<>> THEN <<>>
    ELSE JsonDumps(items[1]) \o (IF Len(items) > 1 THEN <<",", " ">> ELSE <<>>)
         \o JsonItems(Tail(items))
JsonPairs(pairs) ==
    IF pairs = <<>> THEN <<>>
    ELSE <<"\"">> \o pairs[1][1] \o <<"\"", ":", " ">> \o JsonDumps(pairs[1][2])
         \o (IF Len(pairs) > 1 THEN <<",", " ">> ELSE <<>>)
         \o JsonPairs(Tail(pairs))

JSONDecodeError == [type |-> "JSONDecodeError", msg |-> "Expecting value"]

\* json.loads(text) over the documents of universe: the value whose
\* serialization text is, JSONDecodeError for any other text
json_loads(text, universe) ==
    IF \E x \in universe : JsonDumps(x) = text
    THEN Return(CHOOSE x \in universe : JsonDumps(x) = text)
    ELSE Raise(JSONDecodeError)

-----------------------------------------------------------------------------
(* types/schemas.py: LinkedInPost *)

MinItems == 3
MaxItems == 5

StrFields == {"hook", "context", "takeaway", "call_to_action"}
ListFields == {"key_points", "hashtags"}
PostFields == StrFields \cup ListFields

\* the dict key of each field
Key == [hook |-> <<"h", "o", "o", "k">>,
        context |-> <<"c", "o", "n", "t", "e", "x", "t">>,
        key_points |-> <<"k", "e", "y", "_", "p", "o", "i", "n", "t", "s">>,
        takeaway |-> <<"t", "a", "k", "e", "a", "w", "a", "y">>,
        call_to_action |-> <<"c", "a", "l", "l", "_", "t", "o", "_", "a", "c", "t", "i", "o", "n">>,
        hashtags |-> <<"h", "a", "s", "h", "t", "a", "g", "s">>]

ValidationError == [type |-> "ValidationError", msg |-> "LinkedInPost"]

IsStr(x) == x.type = "str"
IsStrList(x) == x.type = "list" /\ \A i \in 1..Len(x.val) : IsStr(x.val[i])

\* the object built from a dict that passed validation
PostObject(d) ==
    [f \in PostFields |->
        IF f \in StrFields THEN Get(d, Key[f]).val
        ELSE [i \in 1..Len(Get(d, Key[f]).val) |-> Get(d, Key[f]).val[i].val]]

\* a plausible slip: the count constraints are dropped from the schema
LinkedInPost_NoCounts(d) ==
    IF /\ \A f \in PostFields : HasKey(d, Key[f])
       /\ \A f \in StrFields : IsStr(Get(d, Key[f]))
       /\ \A f \in ListFields : IsStrList(Get(d, Key[f]))
    THEN Return(PostObject(d))
    ELSE Raise(ValidationError)

\* LinkedInPost(**d) for a dict d.  Construction raises when a field is
\* missing or of the wrong type, or a list has fewer than min_items or more
\* than max_items entries; keys that are no fields are ignored.
LinkedInPost(d) ==
    IF /\ \A f \in PostFields : HasKey(d, Key[f])
       /\ \A f \in StrFields : IsStr(Get(d, Key[f]))
       /\ \A f \in ListFields :
             /\ IsStrList(Get(d, Key[f]))
             /\ Len(Get(d, Key[f]).val) >= MinItems
             /\ Len(Get(d, Key[f]).val) <= MaxItems
    THEN Return(PostObject(d))
    ELSE Raise(ValidationError)

\* the three characters U+00E2 U+20AC U+00A2 of the bullet literal of line 51
Bullet == <<"U+00E2", "U+20AC", "U+00A2">>

\* sep.join(items)
RECURSIVE Join(_, _)
Join(sep, items) ==
    IF items = <<>> THEN <<>>
    ELSE IF Len(items) = 1 THEN items[1]
    ELSE items[1] \o sep \o Join(sep, Tail(items))

\* the loop of lines 50-51 over key_points
RECURSIVE FormatPoints(_)
FormatPoints(points) ==
    IF points = <<>> THEN <<>>
    ELSE Bullet \o <<SP>> \o points[1] \o <<NL, NL>> \o FormatPoints(Tail(points))

\* a plausible slip: the fields are followed by one newline, not by two
format_for_linkedin_SingleNewline(self) ==
    self.hook \o <<NL>>
    \o self.context \o <<NL>>
    \o FormatPoints(self.key_points)
    \o self.takeaway \o <<NL>>
    \o self.call_to_action \o <<NL>>
    \o Join(<<SP>>, self.hashtags)

format_for_linkedin(self) ==
    self.hook \o <<NL, NL>>
    \o self.context \o <<NL, NL>>
    \o FormatPoints(self.key_points)
    \o self.takeaway \o <<NL, NL>>
    \o self.call_to_action \o <<NL, NL>>
    \o Join(<<SP>>, self.hashtags)

-----------------------------------------------------------------------------
(* validators.py: validate_linkedin_post *)

MinPostLen == 100
MaxPostLen == 3000
MaxHashtags == 10
MinParagraphs == 3
MaxHeaderLevel == 6

Warning(msg) == [msg |-> msg, n |-> 0]
W_TooShort == Warning("Post might be too short (< 100 chars)")
W_TooLong == Warning("Post exceeds recommended length (> 3000 chars)")
W_NoHashtags == Warning("No hashtags found")
W_TooManyHashtags(n) == [msg |-> "Too many hashtags ({n}), optimal is 3-5", n |-> n]
W_LineBreaks == Warning("Consider adding more line breaks for readability")
W_Markdown == Warning("Contains markdown headers (# ##) which won't render on LinkedIn")

\* len(re.findall(r'#\w+', post)): a match starts at every '#' that a word
\* character follows, and no match runs over a '#'
\* a plausible slip: every '#' is counted
CountHashtags_Hashes(post) ==
    Cardinality({i \in 1..Len(post) : post[i] = HASH})

CountHashtags(post) ==
    Cardinality({i \in 1..(Len(post) - 1) : post[i] = HASH /\ post[i + 1] \in WordChars})

\* the number of newlines that end directly before position i
NewlinesBefore(post, i) ==
    CHOOSE k \in 0..(i - 1) :
        /\ \A j \in (i - k)..(i - 1) : post[j] = NL
        /\ k = i - 1 \/ post[i - k - 1] # NL

\* a plausible slip: separators that overlap are counted
CountParagraphs_Overlapping(post) ==
    1 + Cardinality({i \in 1..(Len(post) - 1) : post[i] = NL /\ post[i + 1] = NL})

\* len(post.split('\n\n')): separators are found left to right and do not
\* overlap, so of a run of newlines every second one starts a separator
CountParagraphs(post) ==
    1 + Cardinality({i \in 1..(Len(post) - 1) :
                        /\ post[i] = NL /\ post[i + 1] = NL
                        /\ NewlinesBefore(post, i) % 2 = 0})

\* a plausible slip: the search is made without re.MULTILINE
HasMarkdownHeader_StartOnly(post) ==
    \E k \in 1..MaxHeaderLevel :
        /\ 1 + k <= Len(post)
        /\ \A j \in 1..k : post[j] = HASH
        /\ post[1 + k] \in Whitespace

\* re.search(r'^#{1,6}\s', post, re.MULTILINE) is not None
HasMarkdownHeader(post) ==
    \E i \in 1..Len(post) :
        /\ i = 1 \/ post[i - 1] = NL
        /\ \E k \in 1..MaxHeaderLevel :
              /\ i + k <= Len(post)
              /\ \A j \in i..(i + k - 1) : post[j] = HASH
              /\ post[i + k] \in Whitespace

\* a plausible slip: the four checks are one if/elif chain
validate_linkedin_post_ShortCircuit(post) ==
    LET length == Len(post)
        hashtags == CountHashtags(post)
        paragraphs == CountParagraphs(post)
        warnings ==
            IF length < MinPostLen THEN <<W_TooShort>>
            ELSE IF length > MaxPostLen THEN <<W_TooLong>>
            ELSE IF hashtags = 0 THEN <<W_NoHashtags>>
            ELSE IF hashtags > MaxHashtags THEN <<W_TooManyHashtags(hashtags)>>
            ELSE IF paragraphs < MinParagraphs THEN <<W_LineBreaks>>
            ELSE IF HasMarkdownHeader(post) THEN <<W_Markdown>>
            ELSE <<>>
    IN  [valid |-> Len(warnings) = 0,
         warnings |-> warnings,
         stats |-> [length |-> length, paragraphs |-> paragraphs, hashtags |-> hashtags]]

\* a plausible slip: the length limits are exclusive
validate_linkedin_post_Inclusive(post) ==
    LET length == Len(post)
        hashtags == CountHashtags(post)
        paragraphs == CountParagraphs(post)
        w1 == IF length <= MinPostLen THEN <<W_TooShort>>
              ELSE IF length >= MaxPostLen THEN <<W_TooLong>> ELSE <<>>
        w2 == IF hashtags = 0 THEN <<W_NoHashtags>>
              ELSE IF hashtags > MaxHashtags THEN <<W_TooManyHashtags(hashtags)>> ELSE <<>>
        w3 == IF paragraphs < MinParagraphs THEN <<W_LineBreaks>> ELSE <<>>
        w4 == IF HasMarkdownHeader(post) THEN <<W_Markdown>> ELSE <<>>
        warnings == w1 \o w2 \o w3 \o w4
    IN  [valid |-> Len(warnings) = 0,
         warnings |-> warnings,
         stats |-> [length |-> length, paragraphs |-> paragraphs, hashtags |-> hashtags]]

\* lines 19-60
validate_linkedin_post(post) ==
    LET length == Len(post)
        hashtags == CountHashtags(post)
        paragraphs == CountParagraphs(post)
        w1 == IF length < MinPostLen THEN <<W_TooShort>>
              ELSE IF length > MaxPostLen THEN <<W_TooLong>> ELSE <<>>
        w2 == IF hashtags = 0 THEN <<W_NoHashtags>>
              ELSE IF hashtags > MaxHashtags THEN <<W_TooManyHashtags(hashtags)>> ELSE <<>>
        w3 == IF paragraphs < MinParagraphs THEN <<W_LineBreaks>> ELSE <<>>
        w4 == IF HasMarkdownHeader(post) THEN <<W_Markdown>> ELSE <<>>
        warnings == w1 \o w2 \o w3 \o w4
    IN  [valid |-> Len(warnings) = 0,
         warnings |-> warnings,
         stats |-> [length |-> length, paragraphs |-> paragraphs, hashtags |-> hashtags]]

-----------------------------------------------------------------------------
(* workflows/research_workflow.py: what the external components may do *)

\* AgentExecutor(max_iterations=10)
MaxIterations == 10

\* bounds of the input universes
MaxShortTopic == 3
MaxShortPost == 4
NumUrls == 1

KeyText == <<"t", "e", "x", "t">>
KeyType == <<"t", "y", "p", "e">>

\* the output of AgentExecutor when it stops at the iteration or time limit
S_AgentStopped == <<"A", "g", "e", "n", "t", " ", "s", "t", "o", "p", "p", "e", "d", " ", "d", "u", "e", " ", "t", "o", " ", "i", "t", "e", "r", "a", "t", "i", "o", "n", " ", "l", "i", "m", "i", "t", " ", "o", "r", " ", "t", "i", "m", "e", " ", "l", "i", "m", "i", "t", ".">>

StepText(chars) == Dict(<< <<KeyText, Str(chars)>> >>)
StepNoText == Dict(<< <<KeyType, Str(<<"x">>)>> >>)

\* research_result["output"]: a plain string, or a list of steps
RawOutputs ==
    << Str(<<"R">>),
      List(<<StepText(<<"r", "1">>), StepNoText, StepText(<<"r", "2">>)>>),
      List(<<Str(<<"s">>), StepText(<<"r", "1">>)>>),
      List(<<StepNoText>>),
      List(<<>>),
      List(<<StepText(<<>>)>>),
      List(<<Dict(<< <<KeyText, None>> >>)>>) >>

UrlDigits == <<"0", "1", "2", "3", "4">>
Urls == {<<"u", "/", UrlDigits[i]>> : i \in 1..NumUrls}
Queries == {<<"q">>}

\* the topics of the runs: around the lower and the upper length limit
TopicChars == {"A", " ", "!", "\n"}
Topics ==
    { <<>>, <<" ">>, <<"A">>, <<" ", " ">>, <<"A", "I">>, <<" ", " ", " ">>,
      <<"A", "I", "!">>, Pad("A", MaxTopicLen), Pad("A", MaxTopicLen + 1),
      Pad(" ", MaxTopicLen + 1) }

\* the topics validate_topic is run on: every string of up to MaxShortTopic
\* characters, and strings around the upper length limit
LongTopics ==
    {pre \o Pad(c, n) : pre \in {<<>>, <<" ">>, <<"A">>}, c \in {"A", " "},
                        n \in (MaxTopicLen - 1)..(MaxTopicLen + 1)}
AllTopics == StringsUpTo(TopicChars, MaxShortTopic)
             \cup {<<"A", "I">>, <<"A", "I", "!">>} \cup LongTopics

\* what the writer model may hand back
T_Hi == <<"H", "i">>
T_Header == <<"#", " ", "H", "i">>
T_Long == Pad("a", MinPostLen)
T_Huge == Pad("a", MaxPostLen)
Tag == <<"#", "t">>
NoTag == <<"t">>

MakeDict(hook, nk, nt, tag) ==
    Dict(<< <<Key.hook, Str(hook)>>,
            <<Key.context, Str(<<"c">>)>>,
            <<Key.key_points, List(Pad(Str(<<"k">>), nk))>>,
            <<Key.takeaway, Str(<<"t">>)>>,
            <<Key.call_to_action, Str(<<"q", "?">>)>>,
            <<Key.hashtags, List(Pad(Str(tag), nt))>> >>)

\* a dict without the takeaway field
IncompleteDict ==
    Dict(SelectSeq(MakeDict(T_Hi, MinItems, MinItems, Tag).val,
                   LAMBDA pair : pair[1] # Key.takeaway))

\* a dict whose hook is no string
MistypedDict ==
    Dict(<< <<Key.hook, None>> >> \o Tail(MakeDict(T_Hi, MinItems, MinItems, Tag).val))

WriterDicts ==
    {MakeDict(T_Hi, nk, MinItems, Tag) : nk \in (MinItems - 1)..(MaxItems + 1)}
    \cup {MakeDict(T_Hi, MinItems, nt, Tag) : nt \in (MinItems - 1)..(MaxItems + 1)}
    \cup {MakeDict(h, MinItems, MinItems, Tag) : h \in {T_Header, T_Long, T_Huge}}
    \cup {MakeDict(T_Long, MaxItems, MaxItems, NoTag)}
    \cup {IncompleteDict, MistypedDict}

\* the documents json.loads can yield
JsonUniverse ==
    {MakeDict(T_Hi, nk, MinItems, Tag) : nk \in (MinItems - 1)..(MaxItems + 1)}
    \cup {IncompleteDict, List(<<>>), None}

\* the strings the writer may return: JSON documents, and text that is none
WriterStrings ==
    {JsonDumps(x) : x \in JsonUniverse}
    \cup { <<"o", "o", "p", "s">>, <<"#", " ", "x">>, <<>> }

\* what writer_chain.invoke may return: a LinkedInPost object (which always
\* satisfies the schema), a dict, a string, or None
WriterOutputs ==
    {[type |-> "LinkedInPost", val |-> LinkedInPost(d).value] :
        d \in {x \in WriterDicts : ~LinkedInPost(x).raised}}
    \cup WriterDicts
    \cup {Str(t) : t \in WriterStrings}
    \cup {None}

\* the posts validate_linkedin_post is run on: every string of up to
\* MaxShortPost characters, strings around the two length limits, and posts
\* of a body, a line and a line of hashtags
PostChars == {"a", HASH, SP, NL}
PostLengths == {MinPostLen \div 2, MinPostLen - 1, MinPostLen, MinPostLen + 1,
                MaxPostLen - 1, MaxPostLen, MaxPostLen + 1}
PostSeparators == {<<NL>>, <<NL, NL>>, <<NL, NL, NL>>}
PostLines == { <<"a">>, <<HASH, SP, "a">>, <<HASH, "a">>, <<HASH>>,
               Pad(HASH, MaxHeaderLevel) \o <<"\t", "a">>,
               Pad(HASH, MaxHeaderLevel + 1) \o <<SP, "a">> }
TagLine(n) == Join(<<SP>>, Pad(Tag, n))
MakePost(len, sep, line, ntags) == Pad("a", len) \o sep \o line \o sep \o TagLine(ntags)
Posts ==
    StringsUpTo(PostChars, MaxShortPost)
    \cup {Pad("a", n) : n \in PostLengths}
    \cup {MakePost(len, sep, line, ntags) :
             len \in {MinPostLen \div 2, MinPostLen}, sep \in PostSeparators,
             line \in PostLines, ntags \in {0, 1, MinItems, MaxHashtags, MaxHashtags + 1}}

LLMError == [type |-> "ChatGoogleGenerativeAIError", msg |-> "llm"]
OutputParserException == [type |-> "OutputParserException", msg |-> "writer"]
WriterErrors == {LLMError, OutputParserException}
TypeError == [type |-> "TypeError", msg |-> "sequence item: expected str instance"]

ModelUsed == "gemini-1.5-flash"

-----------------------------------------------------------------------------
(* workflows/research_workflow.py: ResearchWorkflow *)

\* _setup_writer_agent: the chain that __init__ leaves in self.writer_chain.
\* structured_raises: whether self.llm.with_structured_output raised.
setup_writer_agent(structured_raises) ==
    IF structured_raises THEN "parser" ELSE "structured"

\* a plausible slip: the steps are not filtered, and step.get("text",
\* str(step)) renders those without a text field
NormalizeReport_NoFilter(raw_output) ==
    IF raw_output.type = "list"
    THEN LET texts == [i \in 1..Len(raw_output.val) |->
                          IF raw_output.val[i].type = "dict"
                             /\ HasKey(raw_output.val[i], KeyText)
                          THEN Get(raw_output.val[i], KeyText)
                          ELSE Str(PyStr(raw_output.val[i]))]
         IN  IF \E i \in 1..Len(texts) : ~IsStr(texts[i])
             THEN Raise(TypeError)
             ELSE LET joined == Join(<<NL, NL>>, [i \in 1..Len(texts) |-> texts[i].val])
                  IN  IF joined = <<>> THEN Return(PyStr(raw_output)) ELSE Return(joined)
    ELSE Return(PyStr(raw_output))

\* a plausible slip: an empty report is not replaced by the rendering
NormalizeReport_NoFallback(raw_output) ==
    IF raw_output.type = "list"
    THEN LET steps == SelectSeq(raw_output.val,
                                LAMBDA step : step.type = "dict" /\ HasKey(step, KeyText))
             texts == [i \in 1..Len(steps) |-> Get(steps[i], KeyText)]
         IN  IF \E i \in 1..Len(texts) : ~IsStr(texts[i])
             THEN Raise(TypeError)
             ELSE Return(Join(<<NL, NL>>, [i \in 1..Len(texts) |-> texts[i].val]))
    ELSE Return(PyStr(raw_output))

\* lines 188-199 of execute: the research report of the agent's output
NormalizeReport(raw_output) ==
    IF raw_output.type = "list"
    THEN LET steps == SelectSeq(raw_output.val,
                                LAMBDA step : step.type = "dict" /\ HasKey(step, KeyText))
             texts == [i \in 1..Len(steps) |-> Get(steps[i], KeyText)]
         IN  IF \E i \in 1..Len(texts) : ~IsStr(texts[i])
             THEN Raise(TypeError)
             ELSE LET joined == Join(<<NL, NL>>, [i \in 1..Len(texts) |-> texts[i].val])
                  IN  IF joined = <<>> THEN Return(PyStr(raw_output)) ELSE Return(joined)
    ELSE Return(PyStr(raw_output))

\* lines 225-232 of execute: a string from the writer is parsed, and kept as
\* it is when it cannot be parsed into a LinkedInPost
ConvertString(text) ==
    LET post_dict == json_loads(text, JsonUniverse)
    IN  IF post_dict.raised THEN Return(text)
        ELSE IF post_dict.value.type # "dict" THEN Return(text)
        ELSE LET post_obj == LinkedInPost(post_dict.value)
             IN  IF post_obj.raised THEN Return(text)
                 ELSE Return(format_for_linkedin(post_obj.value))

\* a plausible slip: a dict is formatted without being validated
ConvertPost_Unchecked(out) ==
    IF out.type = "LinkedInPost" THEN Return(format_for_linkedin(out.val))
    ELSE IF out.type = "dict"
    THEN LET post_obj == LinkedInPost_NoCounts(out)
         IN  IF post_obj.raised THEN post_obj
             ELSE Return(format_for_linkedin(post_obj.value))
    ELSE IF out.type = "str" THEN ConvertString(out.val)
    ELSE Return(PyStr(out))

\* lines 215-235 of execute: linkedin_post of what the writer returned
ConvertPost(out) ==
    IF out.type = "LinkedInPost" THEN Return(format_for_linkedin(out.val))
    ELSE IF out.type = "dict"
    THEN LET post_obj == LinkedInPost(out)
         IN  IF post_obj.raised THEN post_obj
             ELSE Return(format_for_linkedin(post_obj.value))
    ELSE IF out.type = "str" THEN ConvertString(out.val)
    ELSE Return(PyStr(out))

\* the process after the import of the modules: settings is loaded
\* (src/config/settings.py, line 83), nothing is constructed, called, written
\* or shown; ui is the caller, save_research its option
Started(ui, save_research) ==
    [ui |-> ui, save_research |-> save_research, environ |-> 0, calls |-> 0,
     files |-> <<>>, shown |-> "nothing"]

\* ResearchWorkflow(): lines 39-40 of __init__ assign os.environ
\* ['TAVILY_API_KEY'] and ['GOOGLE_API_KEY'] from settings; environ counts
\* the assignments, calls the calls of execute
Constructed(a) == [a EXCEPT !.environ = @ + 2, !.calls = @ + 1]

\* the locals of an execute call that has not been made yet, on a workflow
\* whose writer chain is mode
IdleRun(mode) ==
    [pc |-> "Idle", stages |-> <<"Idle">>, topic |-> None, writer_mode |-> mode,
     invoked |-> {}, iterations |-> 0, observation |-> None,
     research_result |-> None, research_report |-> None,
     intermediate_steps |-> None, post_structured |-> None,
     linkedin_post |-> None, writer_attempts |-> <<>>, result |-> None,
     error |-> None]

\* the locals of the execute call that the actions speak of
Me ==
    [pc |-> pc, stages |-> stages, topic |-> topic, writer_mode |-> writer_mode,
     invoked |-> invoked, iterations |-> iterations, observation |-> observation,
     research_result |-> research_result, research_report |-> research_report,
     intermediate_steps |-> intermediate_steps, post_structured |-> post_structured,
     linkedin_post |-> linkedin_post, writer_attempts |-> writer_attempts,
     result |-> result, error |-> error]

\* the call that the actions speak of is the one with the locals run
Resume(run) ==
    /\ pc = run.pc
    /\ stages = run.stages
    /\ topic = run.topic
    /\ writer_mode = run.writer_mode
    /\ invoked = run.invoked
    /\ iterations = run.iterations
    /\ observation = run.observation
    /\ research_result = run.research_result
    /\ research_report = run.research_report
    /\ intermediate_steps = run.intermediate_steps
    /\ post_structured = run.post_structured
    /\ linkedin_post = run.linkedin_post
    /\ writer_attempts = run.writer_attempts
    /\ result = run.result
    /\ error = run.error

WriterModes == {setup_writer_agent(r) : r \in BOOLEAN}

Init ==
    /\ \E mode \in WriterModes : Resume(IdleRun(mode))
    /\ other = None
    /\ app = Started("library", FALSE)

\* a plausible slip: the handler returns what has been computed so far
Fail_Partial(e) ==
    /\ pc' = "Failed"
    /\ stages' = Append(stages, "Failed")
    /\ error' = e
    /\ result' = [topic |-> topic, research_report |-> research_report]

\* an exception leaves execute: lines 238-240 and 265-267, or no handler at all
Fail(e) ==
    /\ pc' = "Failed"
    /\ stages' = Append(stages, "Failed")
    /\ error' = e
    /\ result' = result

Goto(stage) ==
    /\ pc' = stage
    /\ stages' = Append(stages, stage)
    /\ error' = error
    /\ result' = result

\* a plausible slip: the topic is checked where execute is entered, and a
\* rejected topic fails the run before the validation stage
Execute_Checked(t) ==
    /\ pc = "Idle"
    /\ topic' = Str(t)
    /\ IF validate_topic(t) # None THEN Fail(validate_topic(t)) ELSE Goto("Validating")
    /\ app' = Constructed(app)
    /\ UNCHANGED <<other, writer_mode, research_result, invoked, iterations, observation,
                   research_report, intermediate_steps, post_structured,
                   linkedin_post, writer_attempts>>

\* a caller constructs a workflow and calls its execute(t)
Execute(t) ==
    /\ pc = "Idle"
    /\ topic' = Str(t)
    /\ Goto("Validating")
    /\ app' = Constructed(app)
    /\ UNCHANGED <<other, writer_mode, research_result, invoked, iterations, observation,
                   research_report, intermediate_steps, post_structured,
                   linkedin_post, writer_attempts>>

\* a plausible slip: the research starts whatever the validator says
ValidateTopic_Skipped ==
    /\ pc = "Validating"
    /\ invoked' = invoked \cup {"research_agent"}
    /\ Goto("Researching")
    /\ UNCHANGED <<other, app,
                   topic, writer_mode, research_result, iterations, observation,
                   research_report, intermediate_steps, post_structured,
                   linkedin_post, writer_attempts>>

\* line 178, and the call of self.research_agent.invoke of line 184
ValidateTopic ==
    /\ pc = "Validating"
    /\ LET e == validate_topic(topic.val)
       IN  IF e # None
           THEN Fail(e) /\ UNCHANGED invoked
           ELSE Goto("Researching") /\ invoked' = invoked \cup {"research_agent"}
    /\ UNCHANGED <<other, app,
                   topic, writer_mode, research_result, iterations, observation,
                   research_report, intermediate_steps, post_structured,
                   linkedin_post, writer_attempts>>

\* a plausible slip: the limit is compared with <=, and the loop makes one
\* step more
ShouldContinue_Inclusive == pc = "Researching" /\ iterations <= MaxIterations

\* the agent loop goes on: AgentExecutor._should_continue
ShouldContinue == pc = "Researching" /\ iterations < MaxIterations

\* a plausible slip: the count of iterations starts again before the limit
ToolStep_Restart(obs) ==
    /\ observation' = obs
    /\ IF obs.out.raised
       THEN Fail(obs.out.exc) /\ UNCHANGED iterations
       ELSE /\ iterations' = (iterations + 1) % MaxIterations
            /\ UNCHANGED <<pc, stages, error, result>>
    /\ UNCHANGED <<other, app,
                   topic, writer_mode, research_result, research_report,
                   intermediate_steps, post_structured, linkedin_post, writer_attempts>>

\* a tool call of the loop has returned or raised
ToolStep(obs) ==
    /\ observation' = obs
    /\ IF obs.out.raised
       THEN Fail(obs.out.exc) /\ UNCHANGED iterations
       ELSE /\ iterations' = iterations + 1
            /\ UNCHANGED <<pc, stages, error, result>>
    /\ UNCHANGED <<other, app,
                   topic, writer_mode, research_result, research_report, intermediate_steps,
                   post_structured, linkedin_post, writer_attempts>>

\* the model picks web_search
AgentSearch(query, resps) ==
    /\ ShouldContinue
    /\ invoked' = invoked \cup {"llm", "web_search"}
    /\ LET r == search(query, resps)
       IN  ToolStep([tool |-> "web_search", input |-> query,
                     failure |-> IF resps[1].ok THEN None ELSE TavilyError,
                     calls |-> r.calls, out |-> r.out])

\* the model picks scrape_webpage
AgentScrape(url, resp) ==
    /\ ShouldContinue
    /\ invoked' = invoked \cup {"llm", "scrape_webpage"}
    /\ ToolStep([tool |-> "scrape_webpage", input |-> url,
                 failure |-> ScrapeException(resp),
                 calls |-> 1, out |-> scrape(url, resp)])

\* the model's answer cannot be parsed: handle_parsing_errors makes the
\* message the observation of the step
AgentParseError ==
    /\ ShouldContinue
    /\ invoked' = invoked \cup {"llm"}
    /\ ToolStep([tool |-> "_Exception", input |-> <<>>, failure |-> None, calls |-> 0,
                 out |-> Return(<<"C", "h", "e", "c", "k">>)])

\* a plausible slip: the research stage is started again, once, after a
\* call of the model has raised
AgentLLMError_Retry ==
    /\ ShouldContinue
    /\ invoked' = invoked \cup {"llm"}
    /\ IF Len(SelectSeq(stages, LAMBDA st : st = "Researching")) < 2
       THEN Goto("Researching") /\ iterations' = 0 /\ observation' = None
       ELSE Fail(LLMError) /\ UNCHANGED <<iterations, observation>>
    /\ UNCHANGED <<other, app,
                   topic, writer_mode, research_result,
                   research_report, intermediate_steps, post_structured,
                   linkedin_post, writer_attempts>>

\* the call of the model raises
AgentLLMError ==
    /\ ShouldContinue
    /\ invoked' = invoked \cup {"llm"}
    /\ Fail(LLMError)
    /\ UNCHANGED <<other, app,
                   topic, writer_mode, research_result, iterations, observation,
                   research_report, intermediate_steps, post_structured,
                   linkedin_post, writer_attempts>>

\* a plausible slip: the result of the agent holds no intermediate_steps
\* (return_intermediate_steps is not set), and line 201 takes the default
ResearchReturns_NoSteps(raw_output) ==
    /\ LET report == NormalizeReport(raw_output)
       IN  IF report.raised
           THEN Fail(report.exc) /\ UNCHANGED <<research_report, intermediate_steps>>
           ELSE /\ research_report' = Str(report.value)
                /\ intermediate_steps' = PyInt(0)
                /\ Goto("Writing")
    /\ observation' = None
    /\ UNCHANGED <<other, app,
                   topic, writer_mode, iterations, post_structured, linkedin_post,
                   writer_attempts>>
    /\ research_result' = raw_output

\* research_agent.invoke has returned raw_output: lines 188-204
ResearchReturns(raw_output) ==
    /\ LET report == NormalizeReport(raw_output)
       IN  IF report.raised
           THEN Fail(report.exc) /\ UNCHANGED <<research_report, intermediate_steps>>
           ELSE /\ research_report' = Str(report.value)
                /\ intermediate_steps' = PyInt(iterations)
                /\ Goto("Writing")
    /\ observation' = None
    /\ UNCHANGED <<other, app,
                   topic, writer_mode, iterations, post_structured, linkedin_post,
                   writer_attempts>>
    /\ research_result' = raw_output

\* the model gives its final answer
AgentFinish(raw_output) ==
    /\ ShouldContinue
    /\ invoked' = invoked \cup {"llm"}
    /\ ResearchReturns(raw_output)

\* the loop ends at max_iterations, or at max_execution_time after any step
AgentStop ==
    /\ pc = "Researching"
    /\ iterations >= 1
    /\ UNCHANGED invoked
    /\ ResearchReturns(Str(S_AgentStopped))

\* a plausible slip: a failed schema-constrained generation is followed by
\* the text-based strategy, which fails as well
WriterRaises_Fallback(e) ==
    /\ pc = "Writing"
    /\ invoked' = invoked \cup {"writer"}
    /\ writer_attempts' = IF writer_mode = "structured"
                          THEN writer_attempts \o <<"structured", "parser">>
                          ELSE Append(writer_attempts, writer_mode)
    /\ Fail(e)
    /\ UNCHANGED <<other, app,
                   topic, writer_mode, research_result, iterations, observation,
                   research_report, intermediate_steps, post_structured, linkedin_post>>

\* self.writer_chain.invoke raises: lines 209-212 and 238-240
WriterRaises(e) ==
    /\ pc = "Writing"
    /\ invoked' = invoked \cup {"writer"}
    /\ writer_attempts' = Append(writer_attempts, writer_mode)
    /\ Fail(e)
    /\ UNCHANGED <<other, app,
                   topic, writer_mode, research_result, iterations, observation,
                   research_report, intermediate_steps, post_structured, linkedin_post>>

\* a plausible slip: a post that cannot be built sends the run back to research
WriterReturns_Retry(out) ==
    /\ pc = "Writing"
    /\ invoked' = invoked \cup {"writer"}
    /\ writer_attempts' = Append(writer_attempts, writer_mode)
    /\ post_structured' = out
    /\ LET post == ConvertPost(out)
       IN  IF post.raised
           THEN Goto("Researching") /\ UNCHANGED linkedin_post
           ELSE linkedin_post' = Str(post.value) /\ Goto("ValidatingOutput")
    /\ UNCHANGED <<other, app,
                   topic, writer_mode, research_result, iterations, observation,
                   research_report, intermediate_steps>>

\* self.writer_chain.invoke returns out: lines 209-240
WriterReturns(out) ==
    /\ pc = "Writing"
    /\ invoked' = invoked \cup {"writer"}
    /\ writer_attempts' = Append(writer_attempts, writer_mode)
    /\ post_structured' = out
    /\ LET post == ConvertPost(out)
       IN  IF post.raised
           THEN Fail(post.exc) /\ UNCHANGED linkedin_post
           ELSE linkedin_post' = Str(post.value) /\ Goto("ValidatingOutput")
    /\ UNCHANGED <<other, app,
                   topic, writer_mode, research_result, iterations, observation,
                   research_report, intermediate_steps>>

\* a plausible slip: a post with warnings fails the run
ValidateOutput_Strict ==
    /\ pc = "ValidatingOutput"
    /\ LET validation_result == validate_linkedin_post(linkedin_post.val)
       IN  IF validation_result.valid
           THEN /\ result' = [topic |-> topic.val,
                              research_report |-> research_report.val,
                              linkedin_post |-> linkedin_post.val,
                              metadata |-> [research_steps |-> intermediate_steps.val,
                                            post_length |-> Len(linkedin_post.val),
                                            validation |-> validation_result,
                                            model_used |-> ModelUsed]]
                /\ pc' = "Done"
                /\ stages' = Append(stages, "Done")
                /\ UNCHANGED error
           ELSE Fail(ValueError("Post is not valid"))
    /\ UNCHANGED <<other, app,
                   topic, writer_mode, research_result, invoked, iterations, observation,
                   research_report, intermediate_steps, post_structured,
                   linkedin_post, writer_attempts>>

\* a plausible slip: the list of warnings is one list that all the calls of
\* the validator share (a mutable default), so that a call reports the
\* warnings of the calls before it as well
ValidateOutput_SharedWarnings ==
    /\ pc = "ValidatingOutput"
    /\ LET validation_result == validate_linkedin_post(linkedin_post.val)
           before == IF other # None /\ other.pc = "Done"
                     THEN other.result.metadata.validation.warnings ELSE <<>>
           shared == [validation_result EXCEPT !.warnings = before \o @,
                                               !.valid = @ /\ before = <<>>]
       IN  result' = [topic |-> topic.val,
                      research_report |-> research_report.val,
                      linkedin_post |-> linkedin_post.val,
                      metadata |-> [research_steps |-> intermediate_steps.val,
                                    post_length |-> Len(linkedin_post.val),
                                    validation |-> shared,
                                    model_used |-> ModelUsed]]
    /\ pc' = "Done"
    /\ stages' = Append(stages, "Done")
    /\ UNCHANGED <<other, app,
                   topic, writer_mode, research_result, invoked, iterations, observation,
                   research_report, intermediate_steps, post_structured,
                   linkedin_post, writer_attempts,
                   error>>

\* lines 244-263
ValidateOutput ==
    /\ pc = "ValidatingOutput"
    /\ LET validation_result == validate_linkedin_post(linkedin_post.val)
       IN  result' = [topic |-> topic.val,
                      research_report |-> research_report.val,
                      linkedin_post |-> linkedin_post.val,
                      metadata |-> [research_steps |-> intermediate_steps.val,
                                    post_length |-> Len(linkedin_post.val),
                                    validation |-> validation_result,
                                    model_used |-> ModelUsed]]
    /\ pc' = "Done"
    /\ stages' = Append(stages, "Done")
    /\ UNCHANGED <<other, app,
                   topic, writer_mode, research_result, invoked, iterations, observation,
                   research_report, intermediate_steps, post_structured,
                   linkedin_post, writer_attempts,
                   error>>

Research ==
    \/ \E q \in Queries, resps \in SearchResponses : AgentSearch(q, resps)
    \/ \E u \in Urls, resp \in ScrapeResponses : AgentScrape(u, resp)
    \/ AgentParseError
    \/ AgentLLMError
    \/ \E i \in DOMAIN RawOutputs : AgentFinish(RawOutputs[i])
    \/ AgentStop

Write ==
    \/ \E e \in WriterErrors : WriterRaises(e)
    \/ \E out \in WriterOutputs : WriterReturns(out)

Next ==
    \/ \E t \in Topics : Execute(t)
    \/ ValidateTopic
    \/ Research
    \/ Write
    \/ ValidateOutput

Spec == Init /\ [][Next]_vars

\* where a run is: its stage and the number of loop steps made; every step
\* of a run changes it
position == <<pc, iterations>>

\* lines 244-263 make no call that can block: once the post is there, the
\* validation and the construction of the result run
FairSpec == Spec /\ WF_position(ValidateOutput)

\* the steps of a run that has been started
RunStep == ValidateTopic \/ Research \/ Write \/ ValidateOutput

\* each call a run makes returns or raises, and execute goes on
RunSpec == Spec /\ WF_position(RunStep)

\* validate_topic alone, on every topic of AllTopics
TopicNext ==
    \/ \E t \in AllTopics : Execute(t)
    \/ ValidateTopic

TopicSpec == Init /\ [][TopicNext]_vars

\* validate_linkedin_post alone, on every post of Posts: the writer returns
\* the post as a string that is no JSON, which line 232 makes the post
PostNext ==
    \/ Execute(<<"A", "I", "!">>)
    \/ ValidateTopic
    \/ AgentFinish(RawOutputs[1])
    \/ \E p \in Posts : WriterReturns(Str(p))
    \/ ValidateOutput

PostSpec == Init /\ [][PostNext]_vars

-----------------------------------------------------------------------------
(* Two execute calls at the same time *)

locals == <<pc, stages, topic, writer_mode, invoked, iterations, observation,
            research_result, research_report, intermediate_steps, post_structured,
            linkedin_post, writer_attempts, result, error>>

\* a plausible slip: research_report is a name of the module, not a local
\* of execute, and the call that goes on finds what the other call left there
Switch_SharedReport ==
    /\ other # None
    /\ pc' = other.pc
    /\ stages' = other.stages
    /\ topic' = other.topic
    /\ writer_mode' = other.writer_mode
    /\ invoked' = other.invoked
    /\ iterations' = other.iterations
    /\ observation' = other.observation
    /\ research_result' = other.research_result
    /\ research_report' = research_report
    /\ intermediate_steps' = other.intermediate_steps
    /\ post_structured' = other.post_structured
    /\ linkedin_post' = other.linkedin_post
    /\ writer_attempts' = other.writer_attempts
    /\ result' = other.result
    /\ error' = other.error
    /\ other' = Me
    /\ UNCHANGED app

\* the thread of the other call goes on: each call has its own workflow
\* object (app.py, line 150) and its own locals, which change places here
Switch ==
    /\ other # None
    /\ pc' = other.pc
    /\ stages' = other.stages
    /\ topic' = other.topic
    /\ writer_mode' = other.writer_mode
    /\ invoked' = other.invoked
    /\ iterations' = other.iterations
    /\ observation' = other.observation
    /\ research_result' = other.research_result
    /\ research_report' = other.research_report
    /\ intermediate_steps' = other.intermediate_steps
    /\ post_structured' = other.post_structured
    /\ linkedin_post' = other.linkedin_post
    /\ writer_attempts' = other.writer_attempts
    /\ result' = other.result
    /\ error' = other.error
    /\ other' = Me
    /\ UNCHANGED app

\* a topic that fails the validation and one that passes it
PairTopics == {<<"A", "I">>, <<"A", "I", "!">>}

\* a post with warnings and one with, among others, the header warning
PairPosts == {T_Hi, T_Header}

\* the steps of a run on few inputs: the loop makes steps of one kind
SmallRun ==
    \/ ValidateTopic
    \/ AgentParseError
    \/ AgentLLMError
    \/ AgentFinish(RawOutputs[1])
    \/ AgentStop
    \/ WriterRaises(LLMError)
    \/ \E p \in PairPosts : WriterReturns(Str(p))
    \/ ValidateOutput

PairInit ==
    /\ \E mode \in WriterModes : Resume(IdleRun(mode))
    /\ other \in {IdleRun(mode) : mode \in WriterModes}
    /\ app = Started("web", FALSE)

PairNext ==
    \/ \E t \in PairTopics : Execute(t)
    \/ SmallRun
    \/ Switch

PairSpec == PairInit /\ [][PairNext]_vars

-----------------------------------------------------------------------------
(* The front ends: src/main.py (research) and app.py (main) *)

\* the files of a result, in the order they are written
ResultFiles(save_research) ==
    <<"linkedin_post">> \o (IF save_research THEN <<"research_report">> ELSE <<>>)
    \o <<"metadata">>

\* ResearchWorkflow() raises: lines 42-54 of __init__, after the assignments
\* of os.environ; the handler of the front end reports it
ConstructRaises ==
    /\ pc = "Idle"
    /\ app' = [app EXCEPT !.environ = @ + 2, !.shown = "error"]
    /\ UNCHANGED <<locals, other>>

\* the user submits topic t: the command is run (main.py, lines 50-52), or
\* the button of the form is pressed (app.py, lines 134-151 and 244-245)
Submit(t) ==
    /\ app.shown = "nothing"
    /\ app.calls = 0
    /\ IF app.ui = "web" /\ t = <<>>
       THEN /\ pc = "Idle"
            /\ app' = [app EXCEPT !.shown = "warning"]
            /\ UNCHANGED <<locals, other>>
       ELSE Execute(t) \/ ConstructRaises

\* execute has returned: the result is shown and the files are written, of
\* which the first `written` succeed (main.py, lines 61-97; app.py, lines
\* 153-237); a failed write is reported by the handler of the form, and
\* leaves the command with its traceback
Present(written) ==
    /\ pc = "Done"
    /\ app.shown = "nothing"
    /\ written \in 0..Len(ResultFiles(app.save_research))
    /\ app' = [app EXCEPT
                 !.files = SubSeq(ResultFiles(app.save_research), 1, written),
                 !.shown = IF written = Len(ResultFiles(app.save_research))
                           THEN "result"
                           ELSE IF app.ui = "web" THEN "error" ELSE "traceback"]
    /\ UNCHANGED <<locals, other>>

\* a plausible slip: the handler saves the metadata of the failed run
ReportError_Saves ==
    /\ pc = "Failed"
    /\ app.shown = "nothing"
    /\ app' = [app EXCEPT !.shown = "error", !.files = <<"metadata">>]
    /\ UNCHANGED <<locals, other>>

\* execute has raised: main.py, lines 56-58; app.py, lines 239-242
ReportError ==
    /\ pc = "Failed"
    /\ app.shown = "nothing"
    /\ app' = [app EXCEPT !.shown = "error"]
    /\ UNCHANGED <<locals, other>>

\* the topics of a user: none, one that fails the validation, one that passes
AppTopics == {<<>>} \cup PairTopics

AppInit ==
    /\ \E mode \in WriterModes : Resume(IdleRun(mode))
    /\ other = None
    /\ app \in {Started(ui, save) : ui \in {"cli", "web"}, save \in BOOLEAN}

AppNext ==
    \/ \E t \in AppTopics : Submit(t)
    \/ SmallRun
    \/ \E written \in 0..3 : Present(written)
    \/ ReportError

AppSpec == AppInit /\ [][AppNext]_vars

-----------------------------------------------------------------------------
(* Properties *)

Range(seq) == {seq[i] : i \in 1..Len(seq)}
IsPrefix(s, t) == Len(s) <= Len(t) /\ \A i \in 1..Len(s) : s[i] = t[i]
AllWhitespace(t) == \A i \in 1..Len(t) : t[i] \in Whitespace

Terminal == {"Done", "Failed"}
StageOrder == <<"Idle", "Validating", "Researching", "Writing", "ValidatingOutput", "Done">>

\* the stage the run was in when it failed
FailedIn == stages[Len(stages) - 1]

\* validate_topic has run on topic
TopicValidated == pc \notin {"Idle", "Validating"}

\* C1: a topic that validate_topic rejects ends the run in Failed with the
\* validator's error and without the research agent, the model, a tool or
\* the writer having been invoked; whatever is invoked, is invoked for a
\* topic that passed.
C1_ValidationFirst ==
    /\ ~TopicValidated => invoked = {} /\ writer_attempts = <<>>
    /\ TopicValidated /\ validate_topic(topic.val) # None =>
          /\ pc = "Failed"
          /\ error = validate_topic(topic.val)
          /\ invoked = {}
          /\ writer_attempts = <<>>
          /\ result = None

\* a rejected topic has ended its run
C1_Witness ==
    pc = "Failed" /\ topic.val = <<"A", "I">> /\ error = TooShort /\ invoked = {}

\* the errors a stage can raise
StageErrors(stage) ==
    IF stage = "Validating" THEN {EmptyInput, TooShort, TooLong}
    ELSE IF stage = "Researching" THEN {TavilyError, LLMError, TypeError}
    ELSE IF stage = "Writing" THEN WriterErrors \cup {ValidationError}
    ELSE {}

CompleteResult(r) ==
    /\ DOMAIN r = {"topic", "research_report", "linkedin_post", "metadata"}
    /\ DOMAIN r.metadata = {"research_steps", "post_length", "validation", "model_used"}

\* C2: a run that has ended has either returned a complete ExecutionResult
\* and raised nothing, or raised the error of the stage that failed, as that
\* stage raised it, and returned nothing; a run that has not ended has done
\* neither.
C2_ResultOrError ==
    /\ pc = "Done" => CompleteResult(result) /\ error = None
    /\ pc = "Failed" =>
          /\ result = None
          /\ error \in StageErrors(FailedIn)
          /\ FailedIn = "Validating" => error = validate_topic(topic.val)
          /\ FailedIn = "Researching" /\ observation # None /\ observation.out.raised
                => error = observation.out.exc
    /\ pc \notin Terminal => result = None /\ error = None

\* the writer stage has failed after the research stage had produced a report
C2_Witness ==
    /\ pc = "Failed" /\ FailedIn = "Writing"
    /\ research_report # None /\ error = ValidationError /\ result = None

\* the stages entered so far are in the order of the pipeline
StagesInOrder ==
    /\ pc = stages[Len(stages)]
    /\ IF pc = "Failed"
       THEN /\ IsPrefix(SubSeq(stages, 1, Len(stages) - 1), StageOrder)
            /\ FailedIn \notin Terminal
       ELSE IsPrefix(stages, StageOrder)
    /\ "writer" \in invoked \/ writer_attempts # <<>> =>
          /\ "research_agent" \in invoked
          /\ "Writing" \in Range(stages)
          /\ research_report # None
    /\ pc \in {"ValidatingOutput", "Done"} => "writer" \in invoked /\ linkedin_post # None
    /\ result # None => pc = "Done"

\* C3: the stages of a run occur in the order Validating, Researching,
\* Writing, Validating-Output, Done, none skipped and none entered twice; the
\* writer is invoked only after the research report has been normalized, the
\* output is validated only after the writer has produced a post; no step
\* follows Done or Failed.
C3_StageOrder == [](StagesInOrder) /\ [][pc \notin Terminal]_position

C3_Witness == pc = "Done" /\ stages = StageOrder

\* C4, as stated: a run fails on a schema-constrained generation that
\* raised only after the text-based fallback has been tried as well.
C4_Original ==
    /\ pc = "Failed" /\ FailedIn = "Writing" /\ error \in WriterErrors
    /\ writer_attempts[1] = "structured"
    => "parser" \in Range(writer_attempts)

\* C4, amended: the text-based fallback is chosen when the workflow is
\* constructed (it is the writer chain of a workflow whose schema-constrained
\* setup raised); a run invokes the one chain the workflow has, once, and a
\* generation that raises fails the run with that error at once, no other
\* strategy being tried.
C4_FallbackAtSetup ==
    /\ writer_mode \in {"structured", "parser"}
    /\ writer_attempts \in {<<>>, <<writer_mode>>}
    /\ writer_attempts = <<>> <=> "writer" \notin invoked
    /\ pc = "Failed" /\ FailedIn = "Writing" =>
          writer_attempts = <<writer_mode>> /\ error \in WriterErrors \cup {ValidationError}

\* a schema-constrained generation has raised and the run has failed
C4_Witness ==
    /\ pc = "Failed" /\ FailedIn = "Writing" /\ error = OutputParserException
    /\ writer_attempts = <<"structured">>

\* the formattings of the records that satisfy the schema
ValidFormatted ==
    {format_for_linkedin(PostObject(d)) :
        d \in {x \in WriterDicts :
                  /\ \A f \in PostFields : HasKey(x, Key[f])
                  /\ \A f \in StrFields : IsStr(Get(x, Key[f]))
                  /\ \A f \in ListFields :
                        /\ IsStrList(Get(x, Key[f]))
                        /\ Len(Get(x, Key[f]).val) \in MinItems..MaxItems}}

\* C5, as stated: a returned linkedin_post is the formatting of a record
\* with six fields, 3 to 5 key_points and 3 to 5 hashtags.
C5_Original ==
    pc = "Done" => result.linkedin_post \in ValidFormatted

\* C5, amended: when the writer returned a LinkedInPost or a dict, the post
\* is the formatting of a record that satisfies the schema, and a dict that
\* does not satisfy it fails the run; when the writer returned a string, the
\* post is the formatting of the record the string parses into or, when it
\* does not parse into one, the string itself, unchanged; when the writer
\* returned anything else, the post is its string rendering.
C5_PostOrigin ==
    /\ pc \in {"ValidatingOutput", "Done"} =>
          /\ post_structured.type \in {"LinkedInPost", "dict"} =>
                linkedin_post.val \in ValidFormatted
          /\ post_structured.type = "str" =>
                \/ linkedin_post.val \in ValidFormatted
                \/ linkedin_post.val = post_structured.val
          /\ post_structured.type = "NoneType" =>
                linkedin_post.val = <<"N", "o", "n", "e">>
    /\ pc = "Done" => result.linkedin_post = linkedin_post.val
    /\ pc = "Failed" /\ FailedIn = "Writing" /\ error = ValidationError =>
          post_structured.type = "dict"

\* a string that is no JSON has been returned as the post
C5_Witness ==
    /\ pc = "Done" /\ post_structured = Str(<<"o", "o", "p", "s">>)
    /\ result.linkedin_post = <<"o", "o", "p", "s">>

\* C6: once the writer stage has produced a post the run reaches Done,
\* whatever the output validator reports: the only step from
\* Validating-Output leads to Done with a result, it is taken, and the
\* result carries the validator's report on the returned post.
C6_SoftValidation ==
    /\ [](pc = "Done" =>
            /\ result.linkedin_post = linkedin_post.val
            /\ result.metadata.validation = validate_linkedin_post(result.linkedin_post)
            /\ result.metadata.validation.valid
                  = (result.metadata.validation.warnings = <<>>))
    /\ [][pc = "ValidatingOutput" => pc' = "Done" /\ result' # None /\ error' = None]_position
    /\ (pc = "ValidatingOutput" ~> pc = "Done")

\* a post with all four warnings has been returned
C6_Witness ==
    pc = "Done" /\ Len(result.metadata.validation.warnings) = 4

\* C7: scrape never raises: when the extraction call fails, it returns a
\* string that contains the error message and the URL, the loop goes on with
\* that string as the observation, and if the run fails later, it fails with
\* the error of a later call of the model.
C7_ScrapeNeverRaises ==
    /\ observation # None /\ observation.tool = "scrape_webpage" =>
          /\ ~observation.out.raised
          /\ iterations >= 1
          /\ observation.failure # None =>
                /\ Contains(observation.out.value, observation.failure.msg)
                /\ Contains(observation.out.value, observation.input)
                /\ pc \in {"Researching", "Failed"}
                /\ pc = "Failed" => error = LLMError

\* the extraction call has answered 404 and the research goes on
C7_Witness ==
    /\ pc = "Researching" /\ observation # None /\ observation.tool = "scrape_webpage"
    /\ observation.failure # None /\ observation.failure.type = "HTTPError"
    /\ error = None

\* C8: search invokes the search service once; when the service fails,
\* search raises that error, and the run is Failed with it, without a
\* research report and without a result.
C8_SearchFailureFatal ==
    observation # None /\ observation.tool = "web_search" =>
        /\ observation.calls = 1
        /\ observation.failure = None => ~observation.out.raised /\ iterations >= 1
        /\ observation.failure # None =>
              /\ observation.out = Raise(observation.failure)
              /\ pc = "Failed"
              /\ error = observation.failure
              /\ research_report = None
              /\ result = None

\* the search service has failed after the loop had made steps
C8_Witness ==
    /\ pc = "Failed" /\ observation # None /\ observation.tool = "web_search"
    /\ error = TavilyError /\ iterations >= 2

\* C9, as stated: length 0..2 fails, length 3..200 passes, length 201 or
\* more fails with TooLong.
C9_Original ==
    TopicValidated =>
        LET n == Len(topic.val)
        IN  /\ n < MinTopicLen => pc = "Failed" /\ error \in {EmptyInput, TooShort}
            /\ n >= MinTopicLen /\ n <= MaxTopicLen => pc = "Researching"
            /\ n > MaxTopicLen => pc = "Failed" /\ error = TooLong

\* C9, amended: a topic of whitespace only fails with EmptyInput whatever
\* its length; any other topic fails with TooShort when shorter than 3,
\* passes from 3 to 200, and fails with TooLong from 201; "AI" fails and
\* "AI!" passes.
C9_TopicLength ==
    TopicValidated =>
        LET n == Len(topic.val)
            blank == AllWhitespace(topic.val)
        IN  /\ n < MinTopicLen => pc = "Failed" /\ error \in {EmptyInput, TooShort}
            /\ blank => pc = "Failed" /\ error = EmptyInput
            /\ ~blank /\ n >= MinTopicLen /\ n <= MaxTopicLen => pc = "Researching"
            /\ ~blank /\ n > MaxTopicLen => pc = "Failed" /\ error = TooLong
            /\ topic.val = <<"A", "I">> => pc = "Failed"
            /\ topic.val = <<"A", "I", "!">> => pc = "Researching"

\* a topic of exactly the maximum length has passed
C9_Witness == pc = "Researching" /\ Len(topic.val) = MaxTopicLen

\* the failure the claim's order of checks gives for topic t, None for none
FirstFailure(t) ==
    IF t = <<>> \/ AllWhitespace(t) THEN EmptyInput
    ELSE IF Len(t) < MinTopicLen THEN TooShort
    ELSE IF Len(t) > MaxTopicLen THEN TooLong
    ELSE None

\* C10: validate_topic reports the first failure that applies, in the order
\* EmptyInput (empty or whitespace only), TooShort (untrimmed length below
\* 3), TooLong (untrimmed length above 200), and passes otherwise; running it
\* changes neither the topic nor any other data of the run.
C10_FirstFailure ==
    /\ [](TopicValidated =>
            IF FirstFailure(topic.val) = None
            THEN pc = "Researching" /\ error = None
            ELSE pc = "Failed" /\ error = FirstFailure(topic.val))
    /\ [][pc = "Validating" =>
            UNCHANGED <<other, app,
                        topic, writer_mode, research_result, iterations, observation,
                        research_report, intermediate_steps, post_structured, linkedin_post,
                        writer_attempts, result>>]_position

\* a short topic of whitespace only has failed with EmptyInput, not TooShort
C10_Witness ==
    pc = "Failed" /\ topic.val = <<" ", " ">> /\ error = EmptyInput

-----------------------------------------------------------------------------
(* Properties of validate_linkedin_post, on the posts of PostSpec *)

\* the report on the post of a finished run
Report == result.metadata.validation
HasWarning(w) == \E i \in 1..Len(Report.warnings) : Report.warnings[i] = w

\* the number of '#' characters in a row from position i on
HashesFrom(p, i) ==
    CHOOSE k \in 0..(Len(p) - i + 1) :
        /\ \A j \in i..(i + k - 1) : p[j] = HASH
        /\ i + k > Len(p) \/ p[i + k] # HASH

\* some line of p starts with 1 to 6 '#' and then a whitespace character
HeaderLine(p) ==
    \E i \in 1..Len(p) :
        /\ i = 1 \/ p[i - 1] = NL
        /\ LET k == HashesFrom(p, i)
           IN  k \in 1..MaxHeaderLevel /\ i + k <= Len(p) /\ p[i + k] \in Whitespace

\* where the word that ends at position j starts
WordStart(p, j) ==
    CHOOSE s \in 1..j : (s = 1 \/ p[s - 1] \notin WordChars)
                        /\ \A m \in s..j : p[m] \in WordChars

\* the '#word' tokens of p, each named by the position where its word ends
TagTokens(p) ==
    {j \in 1..Len(p) :
        /\ p[j] \in WordChars
        /\ j = Len(p) \/ p[j + 1] \notin WordChars
        /\ WordStart(p, j) > 1
        /\ p[WordStart(p, j) - 1] = HASH}

\* the length of the run of newlines that starts at position i
NewlinesFrom(p, i) ==
    CHOOSE k \in 1..(Len(p) - i + 1) :
        /\ \A j \in i..(i + k - 1) : p[j] = NL
        /\ i + k > Len(p) \/ p[i + k] # NL

\* the segments of p between double newlines: a run of n newlines holds
\* n \div 2 separators
Segments(p) ==
    1 + Cardinality(UNION {{<<i, j>> : j \in 1..(NewlinesFrom(p, i) \div 2)} :
                              i \in {x \in 1..Len(p) :
                                        p[x] = NL /\ (x = 1 \/ p[x - 1] # NL)}})

LengthViolated(p) == Len(p) < MinPostLen \/ Len(p) > MaxPostLen
HashtagsViolated(p) ==
    Cardinality(TagTokens(p)) = 0 \/ Cardinality(TagTokens(p)) > MaxHashtags
ParagraphsViolated(p) == Segments(p) < MinParagraphs
RulesViolated(p) ==
    Cardinality({r \in {"length", "hashtags", "paragraphs", "header"} :
                    \/ r = "length" /\ LengthViolated(p)
                    \/ r = "hashtags" /\ HashtagsViolated(p)
                    \/ r = "paragraphs" /\ ParagraphsViolated(p)
                    \/ r = "header" /\ HeaderLine(p)})

\* C11: validate_linkedin_post runs its four checks on every post: the
\* warnings are one for each rule the post violates, no two alike, and valid
\* is true exactly when there is none; a post of length 50 without hashtags
\* has the too-short and the no-hashtags warning and is not valid.
C11_AllChecksRun ==
    pc = "Done" =>
        LET p == result.linkedin_post
        IN  /\ Len(Report.warnings) = RulesViolated(p)
            /\ \A i, j \in 1..Len(Report.warnings) :
                  Report.warnings[i] = Report.warnings[j] => i = j
            /\ Report.valid <=> Len(Report.warnings) = 0
            /\ Report.valid <=> RulesViolated(p) = 0
            /\ Len(p) = MinPostLen \div 2 /\ TagTokens(p) = {} =>
                  HasWarning(W_TooShort) /\ HasWarning(W_NoHashtags) /\ ~Report.valid

\* a post of 50 letters has been reported: too short, no hashtags, and more
C11_Witness ==
    /\ pc = "Done" /\ result.linkedin_post = Pad("a", MinPostLen \div 2)
    /\ HasWarning(W_TooShort) /\ HasWarning(W_NoHashtags) /\ Len(Report.warnings) = 3

\* C12: the markdown-header warning is there exactly when some line of the
\* post starts with 1 to 6 '#' followed by whitespace, and then the post is
\* not valid; a line that starts with '#' and a letter does not bring it.
C12_MarkdownHeader ==
    pc = "Done" =>
        LET p == result.linkedin_post
        IN  /\ HasWarning(W_Markdown) <=> HeaderLine(p)
            /\ HeaderLine(p) => ~Report.valid

\* a header line amid content that is valid otherwise
C12_Witness ==
    /\ pc = "Done"
    /\ result.linkedin_post = MakePost(MinPostLen, <<NL, NL>>, <<HASH, SP, "a">>, MinItems)
    /\ Report.warnings = <<W_Markdown>>

\* C13: the hashtags of the stats are the '#word' tokens of the post; the
\* no-hashtags warning is there exactly when there are none, the
\* too-many-hashtags warning, with their number, exactly when there are
\* more than 10, and no other number is warned about.
C13_Hashtags ==
    pc = "Done" =>
        LET p == result.linkedin_post
            n == Cardinality(TagTokens(p))
        IN  /\ Report.stats.hashtags = n
            /\ HasWarning(W_NoHashtags) <=> n = 0
            /\ HasWarning(W_TooManyHashtags(n)) <=> n > MaxHashtags
            /\ \A i \in 1..Len(Report.warnings) :
                  Report.warnings[i].msg = W_TooManyHashtags(n).msg =>
                      Report.warnings[i].n = n
            /\ ~(HasWarning(W_NoHashtags) /\ HasWarning(W_TooManyHashtags(n)))

\* a valid post with exactly three tokens
C13_Witness ==
    /\ pc = "Done"
    /\ result.linkedin_post = MakePost(MinPostLen, <<NL, NL>>, <<"a">>, MinItems)
    /\ Report.stats.hashtags = 3 /\ Report.valid

\* C14: the too-short warning is there exactly when the post has fewer than
\* 100 characters, the too-long warning exactly when it has more than 3000,
\* never both, and the length of the stats is the length of the post.
C14_Length ==
    pc = "Done" =>
        LET p == result.linkedin_post
        IN  /\ HasWarning(W_TooShort) <=> Len(p) < MinPostLen
            /\ HasWarning(W_TooLong) <=> Len(p) > MaxPostLen
            /\ ~(HasWarning(W_TooShort) /\ HasWarning(W_TooLong))
            /\ Report.stats.length = Len(p)

\* a post of exactly 3000 characters has no length warning
C14_Witness ==
    /\ pc = "Done" /\ Len(result.linkedin_post) = MaxPostLen
    /\ ~HasWarning(W_TooLong) /\ ~HasWarning(W_TooShort)

\* C15: the paragraphs of the stats are the segments of the post between
\* double newlines, empty ones included, and the line-break warning is there
\* exactly when they are fewer than 3.
C15_Paragraphs ==
    pc = "Done" =>
        LET p == result.linkedin_post
        IN  /\ Report.stats.paragraphs = Segments(p)
            /\ HasWarning(W_LineBreaks) <=> Segments(p) < MinParagraphs

\* four newlines are three empty segments: no line-break warning
C15_Witness ==
    /\ pc = "Done" /\ result.linkedin_post = <<NL, NL, NL, NL>>
    /\ Report.stats.paragraphs = 3 /\ ~HasWarning(W_LineBreaks)

-----------------------------------------------------------------------------
(* Properties of the research report *)

\* the research stage has returned
ResearchReturned == research_result.type # "NoneType"

\* the steps of a returned sequence that carry a text field, and their texts
TextSteps == SelectSeq(research_result.val,
                       LAMBDA step : step.type = "dict" /\ HasKey(step, KeyText))
Texts == [i \in 1..Len(TextSteps) |-> Get(TextSteps[i], KeyText)]
TextsJoined == Join(<<NL, NL>>, [i \in 1..Len(Texts) |-> Texts[i].val])

\* C16, as stated: of a returned sequence with at least one step that
\* carries a text, the report is the texts joined by a blank line.
C16_Original ==
    /\ ResearchReturned /\ research_result.type = "list"
    /\ Len(TextSteps) >= 1 /\ \A i \in 1..Len(Texts) : IsStr(Texts[i])
    => research_report = Str(TextsJoined)

\* C16, amended: of a returned sequence with at least one step that carries
\* a text, all texts being strings, the report is the texts of those steps,
\* in order, joined by a blank line, unless that is the empty string (one
\* step carries a text, the empty one): then the report is the rendering of
\* the whole sequence.  A text that is no string fails the run with a
\* TypeError, before any report exists.
C16_TextsJoined ==
    ResearchReturned /\ research_result.type = "list" /\ Len(TextSteps) >= 1 =>
        IF \A i \in 1..Len(Texts) : IsStr(Texts[i])
        THEN /\ research_report.type = "str"
             /\ TextsJoined # <<>> => research_report.val = TextsJoined
             /\ TextsJoined = <<>> =>
                   /\ Len(Texts) = 1
                   /\ research_report.val = PyStr(research_result)
        ELSE /\ pc = "Failed" /\ error = TypeError
             /\ research_report.type = "NoneType"

\* of three steps two carry a text: the report is the two texts
C16_Witness ==
    /\ pc = "Writing" /\ ResearchReturned /\ research_result.type = "list"
    /\ Len(research_result.val) = 3 /\ Len(TextSteps) = 2
    /\ research_report.val = <<"r", "1", NL, NL, "r", "2">>

\* C17: a plain string is the report, unchanged; of a sequence without a
\* step that carries a text the report is the rendering of the sequence; the
\* report the writer gets and the result holds is a string.
C17_ReportIsString ==
    /\ ResearchReturned /\ research_result.type = "str" =>
          research_report = research_result
    /\ ResearchReturned /\ research_result.type = "list" /\ Len(TextSteps) = 0 =>
          /\ research_report.type = "str"
          /\ research_report.val = PyStr(research_result)
          /\ research_report.val[1] = "[" /\ research_report.val[Len(research_report.val)] = "]"
    /\ pc \in {"Writing", "ValidatingOutput", "Done"} => research_report.type = "str"
    /\ pc = "Done" => result.research_report = research_report.val

\* a sequence of one step without text: the report is its rendering
C17_Witness ==
    /\ pc = "Done" /\ research_result.type = "list"
    /\ Len(research_result.val) = 1 /\ Len(TextSteps) = 0
    /\ result.research_report
          = <<"[", "{", "'", "t", "y", "p", "e", "'", ":", " ", "'", "x", "'", "}", "]">>

-----------------------------------------------------------------------------
(* Properties of the result *)

\* C18: in a returned result post_length is the number of characters of
\* linkedin_post, research_steps is the number of steps the research loop
\* has made and reported, none included, and topic is the topic execute was
\* called with.
C18_Metadata ==
    pc = "Done" =>
        /\ result.metadata.post_length = Len(result.linkedin_post)
        /\ result.metadata.research_steps = iterations
        /\ result.metadata.research_steps \in 0..MaxIterations
        /\ result.topic = topic.val
        /\ result.topic \in Topics

\* a result after two steps of the loop, with a post of 3000 characters or more
C18_Witness ==
    /\ pc = "Done" /\ result.metadata.research_steps = 2
    /\ result.metadata.post_length = Len(result.linkedin_post)
    /\ result.metadata.post_length >= MaxPostLen
    /\ result.topic = Pad("A", MaxTopicLen)

-----------------------------------------------------------------------------
(* Properties of the LinkedInPost schema *)

InBounds(n) == n >= MinItems /\ n <= MaxItems

\* the number of entries of list field f of dict d
DictCount(d, f) == Len(Get(d, Key[f]).val)

\* C19: a LinkedInPost has 3 to 5 key_points and 3 to 5 hashtags wherever it
\* exists in a run; a dict with fewer or more of either is not made a
\* LinkedInPost: the run fails with the ValidationError; and the formatted
\* post holds one bullet for each key point and ends with the hashtags, the
\* object being as it was.
C19_CountBounds ==
    /\ post_structured.type = "LinkedInPost" =>
          /\ InBounds(Len(post_structured.val.key_points))
          /\ InBounds(Len(post_structured.val.hashtags))
          /\ pc \in {"ValidatingOutput", "Done"} =>
                LET post == linkedin_post.val
                    tags == Join(<<SP>>, post_structured.val.hashtags)
                IN  /\ Cardinality({i \in 1..Len(post) : post[i] = Bullet[1]})
                          = Len(post_structured.val.key_points)
                    /\ Slice(post, Len(post) - Len(tags) + 1, Len(post)) = tags
    /\ post_structured.type = "dict" =>
          /\ pc \in {"ValidatingOutput", "Done"} =>
                \A f \in ListFields : InBounds(DictCount(post_structured, f))
          /\ (\E f \in ListFields : ~InBounds(DictCount(post_structured, f))) =>
                pc = "Failed" /\ error = ValidationError /\ linkedin_post.type = "NoneType"

\* a dict with six key points has failed the run
C19_Witness ==
    /\ pc = "Failed" /\ post_structured.type = "dict"
    /\ DictCount(post_structured, "key_points") = MaxItems + 1
    /\ error = ValidationError

-----------------------------------------------------------------------------
(* Termination *)

\* C20: a run that has been started reaches Done or Failed, each of its
\* calls returning or raising: the loop of the research stage makes at most
\* MaxIterations steps, each step that stays in the stage counting one, and
\* at the limit its only step hands the loop's output to the writer stage.
C20_Terminates ==
    /\ (pc \notin {"Idle"} \cup Terminal) ~> (pc \in Terminal)
    /\ [](iterations <= MaxIterations)
    /\ [][pc = "Researching" /\ pc' = "Researching" => iterations' = iterations + 1]_position
    /\ [][pc = "Researching" /\ iterations = MaxIterations =>
            pc' = "Writing" /\ research_report' = Str(S_AgentStopped)]_position

\* a run whose research loop was stopped at the limit has ended
C20_Witness ==
    /\ pc = "Done" /\ result.metadata.research_steps = MaxIterations
    /\ result.research_report = S_AgentStopped

-----------------------------------------------------------------------------
(* Two calls of the output validator *)

\* the step is a step of the call that the actions speak of, not the change
\* to the other call
SameCall == other' = other

-----------------------------------------------------------------------------
(* No stage is run twice *)

\* how often a run has entered stage
Entered(stage) == Len(SelectSeq(stages, LAMBDA st : st = stage))

\* C22: no stage is retried: a run enters the research stage and the writer
\* stage at most once each and makes at most one call of the writer; the
\* research agent is invoked on the one step from Validating to
\* Researching, before any step of its loop; and once a stage has failed,
\* the run makes no further call of the model, a tool or the writer and
\* starts no stage.
C22_NoRetry ==
    /\ [](/\ \A stage \in {"Validating", "Researching", "Writing", "ValidatingOutput"} :
                Entered(stage) <= 1
          /\ Len(writer_attempts) <= 1
          /\ Len(writer_attempts) = 1 <=> "writer" \in invoked)
    /\ [][pc' = "Researching" /\ pc # "Researching" =>
            /\ pc = "Validating" /\ iterations = 0
            /\ "research_agent" \notin invoked
            /\ invoked' = {"research_agent"}]_position
    /\ [][pc # "Failed"]_<<pc, stages, invoked, iterations, writer_attempts>>

\* the research stage has failed at the third call of the model, after two
\* steps of its loop; the writer has not been called
C22_Witness ==
    /\ pc = "Failed" /\ FailedIn = "Researching" /\ iterations = 2
    /\ error.type = LLMError.type
    /\ Entered("Researching") = 1 /\ "writer" \notin invoked

-----------------------------------------------------------------------------
(* The steps to Failed *)

\* some step of the run leads from this state to Failed
CanFail == ENABLED (Next /\ pc' = "Failed")

\* C23, as stated: from every state of a run that is not terminal, in each
\* of the stages Idle, Validating, Researching, Writing and
\* Validating-Output, some step leads directly to Failed.
C23_Original ==
    pc \in {"Idle", "Validating", "Researching", "Writing", "ValidatingOutput"}
        => CanFail

\* C23, amended: a step leads directly to Failed from Validating exactly
\* when validate_topic rejects the topic, from Researching exactly while
\* the loop is below its limit of steps, and from Writing always; no step
\* leads to Failed from Idle, whose steps lead to Validating, nor from
\* Validating-Output, whose step leads to Done.
C23_FailedFrom ==
    /\ pc = "Validating" => (CanFail <=> validate_topic(topic.val) # None)
    /\ pc = "Researching" => (CanFail <=> iterations < MaxIterations)
    /\ pc = "Writing" => CanFail
    /\ pc \in {"Idle", "ValidatingOutput"} => ~CanFail
    /\ pc = "Idle" => ENABLED (Next /\ pc' = "Validating")
    /\ pc = "ValidatingOutput" => ENABLED (Next /\ pc' = "Done")
    /\ pc = "Failed" => FailedIn \in {"Validating", "Researching", "Writing"}

\* a post is there, with all four warnings, and no step leads to Failed
C23_Witness ==
    /\ pc = "ValidatingOutput" /\ ~CanFail
    /\ Len(validate_linkedin_post(linkedin_post.val).warnings) = 4

-----------------------------------------------------------------------------
(* The formatted post *)

\* the fields of the posts that are formatted: plain text, text that ends
\* or starts with a newline, no text, a newline, and text with a blank line
FieldTexts == { <<"a">>, <<"a", NL>>, <<NL, "a">>, <<>>, <<NL>>, <<"a", NL, NL, "b">> }
LastTexts == { <<"a">>, <<"a", NL>>, <<NL, "a">>, <<"a", NL, NL, "b">> }

\* the LinkedInPost objects the writer returns in FormatSpec
FormatPosts ==
    {[type |-> "LinkedInPost",
      val |-> [hook |-> h, context |-> c,
               key_points |-> Pad(<<"k">>, nk - 1) \o <<k>>,
               takeaway |-> t, call_to_action |-> <<"q", "?">>,
               hashtags |-> <<g>> \o Pad(Tag, nt - 1)]] :
        h \in FieldTexts, c \in FieldTexts, k \in LastTexts,
        t \in {<<"t">>, <<NL, "t">>}, g \in {Tag, <<NL>> \o Tag},
        nk \in MinItems..MaxItems, nt \in {MinItems, MaxItems}}

\* format_for_linkedin and validate_linkedin_post on every post of FormatPosts
FormatNext ==
    \/ Execute(<<"A", "I", "!">>)
    \/ ValidateTopic
    \/ AgentFinish(RawOutputs[1])
    \/ \E out \in FormatPosts : WriterReturns(out)
    \/ ValidateOutput

FormatSpec == Init /\ [][FormatNext]_vars

\* the text has an empty line: at its start, or between two newlines
HasBlankLine(text) ==
    \/ text # <<>> /\ text[1] = NL
    \/ \E i \in 1..(Len(text) - 1) : text[i] = NL /\ text[i + 1] = NL

\* the texts of self in the order of the post, each key point with its bullet
PostParts(self) ==
    <<self.hook, self.context>>
    \o [i \in 1..Len(self.key_points) |-> Bullet \o <<SP>> \o self.key_points[i]]
    \o <<self.takeaway, self.call_to_action, Join(<<SP>>, self.hashtags)>>

\* C26: the formatted post of a LinkedInPost is its hook, its context, one
\* bulleted text for each key point in order, its takeaway and its call to
\* action, each followed by a blank line, and then the hashtags joined by
\* single spaces; it splits on double newlines into at least 8 segments,
\* into exactly key_points + 5 when no field has a blank line, and the
\* validator never gives it the line-break warning.
C26_FormattedPost ==
    pc \in {"ValidatingOutput", "Done"} /\ post_structured.type = "LinkedInPost" =>
        LET self == post_structured.val
            post == linkedin_post.val
            fields == <<self.hook, self.context, self.takeaway, self.call_to_action>>
                      \o self.key_points \o self.hashtags
        IN  /\ post = Join(<<NL, NL>>, PostParts(self))
            /\ Len(PostParts(self)) = Len(self.key_points) + 5
            /\ Segments(post) >= MinItems + 5
            /\ Segments(post) >= Len(self.key_points) + 5
            /\ (\A i \in 1..Len(fields) : ~HasBlankLine(fields[i])) =>
                  Segments(post) = Len(self.key_points) + 5
            /\ pc = "Done" =>
                  /\ ~HasWarning(W_LineBreaks)
                  /\ Report.stats.paragraphs = Segments(post)

\* a post of five key points whose hook ends with a newline, with no blank
\* line in a field, has been reported: ten paragraphs
C26_Witness ==
    /\ pc = "Done" /\ post_structured.type = "LinkedInPost"
    /\ post_structured.val.hook = <<"a", NL>>
    /\ post_structured.val.context = <<"a">>
    /\ Len(post_structured.val.key_points) = MaxItems
    /\ \A i \in 1..MaxItems : ~HasBlankLine(post_structured.val.key_points[i])
    /\ ~HasBlankLine(post_structured.val.takeaway)
    /\ ~HasBlankLine(post_structured.val.hashtags[1])
    /\ Report.stats.paragraphs = MaxItems + 5

-----------------------------------------------------------------------------
(* The bound of the research loop *)

\* the loop can make one more step from this state
CanStep == ENABLED (Research /\ iterations' = iterations + 1)

\* C27: research_steps of a returned result is between 0 and 10: it is the
\* length of the list of steps that the loop handed over, the loop makes a
\* step only while it has made fewer than 10, and the count is taken once,
\* when the research stage ends.
C27_StepBound ==
    /\ iterations \in 0..MaxIterations
    /\ pc = "Researching" => (CanStep <=> iterations < MaxIterations)
    /\ intermediate_steps.type = "int" =>
          /\ intermediate_steps.val = iterations
          /\ pc \in {"Writing", "ValidatingOutput", "Done", "Failed"}
    /\ pc = "Done" =>
          /\ result.metadata.research_steps = intermediate_steps.val
          /\ result.metadata.research_steps >= 0
          /\ result.metadata.research_steps <= MaxIterations

\* a run has returned a post without warnings after ten steps of the loop
C27_Witness ==
    /\ pc = "Done" /\ iterations = MaxIterations
    /\ result.metadata.research_steps = MaxIterations
    /\ result.metadata.validation.valid

-----------------------------------------------------------------------------
(* The front ends *)

\* the front end has answered the user
Answered == app.shown # "nothing"

\* C25, as stated: a front end calls execute exactly once for a user
\* action, writes the files of the post, the research report and the
\* metadata only after execute has returned a result, and when execute
\* raises it reports the error and writes none of them.
C25_Original ==
    /\ Answered => app.calls = 1
    /\ app.files # <<>> => pc = "Done"
    /\ pc = "Failed" => app.files = <<>> /\ app.shown \in {"nothing", "error"}

\* C25, amended: a front end calls execute at most once for a user action:
\* once, unless the topic of the web form is empty, which is answered by a
\* warning, or the construction of the workflow raises, which is reported
\* as an error; it writes the files, in the order post, research report
\* (when asked for), metadata, only after execute has returned a result,
\* and when execute raises it reports the error and writes none of them.
C25_FrontEnd ==
    /\ app.calls \in {0, 1}
    /\ app.calls = 1 <=> pc # "Idle"
    /\ Answered /\ app.calls = 0 =>
          /\ app.files = <<>>
          /\ \/ app.ui = "web" /\ app.shown = "warning" /\ app.environ = 0
             \/ app.shown = "error" /\ app.environ = 2
    /\ Answered /\ app.calls = 1 => pc \in Terminal
    /\ app.files # <<>> =>
          /\ pc = "Done" /\ CompleteResult(result)
          /\ IsPrefix(app.files, ResultFiles(app.save_research))
    /\ app.shown = "result" => pc = "Done" /\ app.files = ResultFiles(app.save_research)
    /\ pc = "Failed" => app.files = <<>> /\ app.shown \in {"nothing", "error"}
    /\ pc = "Failed" /\ ~Answered => ENABLED ReportError

\* the command has written the three files of a result
C25_Witness ==
    /\ pc = "Done" /\ app.ui = "cli" /\ app.calls = 1 /\ app.shown = "result"
    /\ app.files = <<"linkedin_post", "research_report", "metadata">>

-----------------------------------------------------------------------------
(* Two execute calls at the same time: independence *)

\* the outcome of the call with the locals run is the one that its topic
\* and the answers it got give when it runs alone
OutcomeAlone(run) ==
    /\ run.pc = "Done" =>
          LET report == NormalizeReport(run.research_result).value
              post == ConvertPost(run.post_structured).value
          IN  /\ run.error = None
              /\ run.result =
                    [topic |-> run.topic.val,
                     research_report |-> report,
                     linkedin_post |-> post,
                     metadata |-> [research_steps |-> run.iterations,
                                   post_length |-> Len(post),
                                   validation |-> validate_linkedin_post(post),
                                   model_used |-> ModelUsed]]
    /\ run.pc = "Failed" =>
          /\ run.result = None
          /\ run.error \in StageErrors(run.stages[Len(run.stages) - 1])
          /\ run.stages[Len(run.stages) - 1] = "Validating" =>
                run.error = validate_topic(run.topic.val)
    /\ run.pc \notin Terminal => run.result = None /\ run.error = None
    /\ run.research_report.type = "str" =>
          run.research_report.val = NormalizeReport(run.research_result).value

\* a step that changes the locals of the other call is the change from one
\* call to the other, which leaves the locals of both as they are
OwnLocals == [][other' = Me /\ Me' = other]_other

\* C24, as stated: the outcome of each of two calls at the same time is the
\* one it produces alone, no call reads or writes what the other wrote, and
\* the state of the process that a call touches is never written after
\* startup.
C24_Original ==
    /\ [](OutcomeAlone(Me) /\ OutcomeAlone(other))
    /\ OwnLocals
    /\ [][app'.environ = app.environ]_app

\* C24, amended: the outcome of each of two calls at the same time is the
\* one it produces alone, and no call reads or writes what the other wrote;
\* the state of the process that a call touches are the two environment
\* variables of the API keys, which the construction of the workflow of
\* each call assigns from the settings loaded at startup, and which nothing
\* else writes.
C24_Independent ==
    /\ [](OutcomeAlone(Me) /\ OutcomeAlone(other))
    /\ OwnLocals
    /\ [](app.environ = 2 * app.calls /\ app.files = <<>>)
    /\ [][/\ pc = "Idle" /\ pc' = "Validating" /\ other' = other
          /\ app' = [app EXCEPT !.environ = @ + 2, !.calls = @ + 1]]_app

\* both calls have returned, one the post of a run that was stopped at the
\* limit and one the post of a run with a final answer; the environment
\* variables have been assigned by each
C24_Witness ==
    /\ pc = "Done" /\ other.pc = "Done" /\ app.environ = 4
    /\ result.research_report = S_AgentStopped
    /\ other.result.research_report = <<"R">>
    /\ result.linkedin_post = T_Hi /\ other.result.linkedin_post = T_Header

=============================================================================
